---- MODULE Spec2Model ----
(***************************************************************************)
(* QA call-center dashboard (app.py).  The script is re-executed top to    *)
(* bottom on every user interaction: load_data() builds (or fetches from   *)
(* the cache) the table of call records, the sidebar widgets deliver the   *)
(* filter values, the table is narrowed into df_f, and the KPIs and the    *)
(* per-group aggregations are computed from df_f.                          *)
(*                                                                         *)
(* Numbers: continuous quantities are fixed-point integers.  Intermediate  *)
(* values of load_data are in thousandths; the columns stored in the table *)
(* (after .round(1)) are in tenths.  A mean is the exact quotient s / n.   *)
(***************************************************************************)
EXTENDS Integers, Sequences, FiniteSets, TLC

VARIABLES gen, cache, cargas, df, rango_fechas, turno_sel, cat_sel, agente_sel,
          df_f, kpi, qa_ag, sc_data, vol_mes, heat, estado

vars == <<gen, cache, cargas, df, rango_fechas, turno_sel, cat_sel, agente_sel,
          df_f, kpi, qa_ag, sc_data, vol_mes, heat, estado>>

(***************************************************************************)
(* Bounds of the model.                                                    *)
(***************************************************************************)
\* rows of the table in the interaction model (n in load_data)
NRows == 2
\* the noise draws range over -MaxPasos..MaxPasos steps
MaxPasos == 2
\* executions of the body of load_data (cache misses) that are followed
MaxCargas == 2

(***************************************************************************)
(* Static lookups of load_data.                                            *)
(***************************************************************************)
ids == {"AG01", "AG02", "AG03", "AG04", "AG05", "AG06", "AG07", "AG08"}

agentes ==
  [a \in ids |->
     CASE a = "AG01" -> [nombre |-> "Carlos Mendez",  experiencia_meses |-> 36]
       [] a = "AG02" -> [nombre |-> "Laura Rios",     experiencia_meses |-> 24]
       [] a = "AG03" -> [nombre |-> "Jorge Castillo", experiencia_meses |-> 6]
       [] a = "AG04" -> [nombre |-> "Valentina Cruz", experiencia_meses |-> 18]
       [] a = "AG05" -> [nombre |-> "Andres Morales", experiencia_meses |-> 48]
       [] a = "AG06" -> [nombre |-> "Sofia Herrera",  experiencia_meses |-> 12]
       [] a = "AG07" -> [nombre |-> "Miguel Torres",  experiencia_meses |-> 30]
       [] a = "AG08" -> [nombre |-> "Daniela Vargas", experiencia_meses |-> 3]]

categorias == {"Venta Nueva", "Renovacion", "Queja", "Soporte Tecnico", "Cancelacion"}
turnos == {"Manana", "Tarde", "Noche"}
dias_nombres == <<"Lun", "Mar", "Mie", "Jue", "Vie", "Sab", "Dom">>

\* the orders in which sorted() and groupby() put the strings
OrdenTurnos == <<"Manana", "Noche", "Tarde">>
OrdenCategorias == <<"Cancelacion", "Queja", "Renovacion", "Soporte Tecnico", "Venta Nueva">>
OrdenNombres == <<"Andres Morales", "Carlos Mendez", "Daniela Vargas", "Jorge Castillo",
                  "Laura Rios", "Miguel Torres", "Sofia Herrera", "Valentina Cruz">>

(***************************************************************************)
(* Calendar: datetime, timedelta, strftime, pd.to_datetime.                *)
(***************************************************************************)
IsLeap(y) == (y % 4 = 0) /\ ((y % 100 # 0) \/ (y % 400 = 0))

DaysInMonth(y, m) ==
  IF m = 2 THEN (IF IsLeap(y) THEN 29 ELSE 28)
  ELSE IF m \in {4, 6, 9, 11} THEN 30 ELSE 31

RECURSIVE DaysBeforeMonth(_, _)
DaysBeforeMonth(y, m) ==
  IF m <= 1 THEN 0 ELSE DaysBeforeMonth(y, m - 1) + DaysInMonth(y, m - 1)

\* date.toordinal(): 1 for 0001-01-01
toordinal(f) ==
  LET y == f.year - 1
  IN  y * 365 + (y \div 4) - (y \div 100) + (y \div 400)
        + DaysBeforeMonth(f.year, f.month) + f.day

\* date.weekday(): Monday is 0
weekday(f) == (toordinal(f) + 6) % 7

datetime(y, m, d) == [year |-> y, month |-> m, day |-> d]

fecha_inicio == datetime(2024, 1, 1)

\* datetime + timedelta(days = k), k >= 0
RECURSIVE MasDias(_, _)
MasDias(f, k) ==
  IF k = 0 THEN f
  ELSE IF f.day + k <= DaysInMonth(f.year, f.month)
         THEN [f EXCEPT !.day = f.day + k]
  ELSE LET resto == k - (DaysInMonth(f.year, f.month) - f.day) - 1
           sig == IF f.month = 12 THEN datetime(f.year + 1, 1, 1)
                                  ELSE datetime(f.year, f.month + 1, 1)
       IN  MasDias(sig, resto)

Digitos == <<"0", "1", "2", "3", "4", "5", "6", "7", "8", "9">>
Digito(k) == Digitos[k + 1]
ValorDigito(c) == (CHOOSE k \in 1..10 : Digitos[k] = c) - 1

\* zero-padded decimal of width w
RECURSIVE Pad(_, _)
Pad(v, w) == IF w = 0 THEN <<>> ELSE Append(Pad(v \div 10, w - 1), Digito(v % 10))

RECURSIVE Entero(_)
Entero(s) ==
  IF s = <<>> THEN 0
  ELSE Entero(SubSeq(s, 1, Len(s) - 1)) * 10 + ValorDigito(s[Len(s)])

\* strftime with a month-first bug in the format string
strftime_dia_mes(f) == Pad(f.year, 4) \o <<"-">> \o Pad(f.day, 2) \o <<"-">> \o Pad(f.month, 2)

\* f.strftime("%Y-%m-%d")
strftime(f) == Pad(f.year, 4) \o <<"-">> \o Pad(f.month, 2) \o <<"-">> \o Pad(f.day, 2)

\* pd.to_datetime of an ISO "YYYY-MM-DD" string: a Timestamp at midnight
pd_to_datetime(s) ==
  datetime(Entero(SubSeq(s, 1, 4)), Entero(SubSeq(s, 6, 7)), Entero(SubSeq(s, 9, 10)))

(***************************************************************************)
(* Arithmetic of load_data.                                                *)
(***************************************************************************)
np_clip(x, lo, hi) == IF x < lo THEN lo ELSE IF x > hi THEN hi ELSE x

\* x / d rounded to the nearest integer, ties to even (numpy round, format .1f)
RoundHalfEven(x, d) ==
  LET q == x \div d
      r == x % d
  IN  IF 2 * r < d THEN q
      ELSE IF 2 * r > d THEN q + 1
      ELSE IF q % 2 = 0 THEN q ELSE q + 1

experiencia_de(d) == agentes[d.ag].experiencia_meses

\* ds: the weekday of the sample's date, m: its month
llamadas_por_turno(d, ds, m) ==
  LET bonus_dia == IF ds \in {0, 4} THEN d.bdia ELSE 0
      bonus_dic == IF m = 12 THEN d.bdic ELSE 0
  IN  d.base + bonus_dia + bonus_dic

\* tenths of a minute
duracion_promedio(d) ==
  LET bonus_cancelacion == IF d.cat = "Cancelacion" THEN d.bcan ELSE 0
  IN  RoundHalfEven(np_clip(d.dur + bonus_cancelacion, 3000, 25000), 100)

\* score_base + ruido + pen_sat + pen_can + pen_noche, in thousandths;
\* ll: the calls of the shift, m: the month
sat_cruda(d, ll, m) ==
  LET score_base == 5000 + duracion_promedio(d) * 15 + experiencia_de(d) * 30
      pen_sat == IF ll > 25 THEN -1200 ELSE 0
      pen_can == IF d.cat = "Cancelacion" THEN -1500 ELSE 0
      pen_noche == IF d.turno = "Noche" /\ m = 3 THEN -2000 ELSE 0
  IN  score_base + d.ruido + pen_sat + pen_can + pen_noche

\* score_satisfaccion without the clip of line 63
score_satisfaccion_sin_clip(d, ll, m) == RoundHalfEven(sat_cruda(d, ll, m), 100)

\* tenths
score_satisfaccion(d, ll, m) ==
  RoundHalfEven(np_clip(sat_cruda(d, ll, m), 1000, 10000), 100)

\* tenths
score_qa(d, ll) ==
  LET score_qa_base == 60000 + experiencia_de(d) * 500 + d.qn
      pen_qa == IF ll > 25 THEN -8000 ELSE 0
  IN  RoundHalfEven(np_clip(score_qa_base + pen_qa, 40000, 100000), 100)

\* tasa_base without the clip of line 69
tasa_base_sin_clip(d) == 20000 - experiencia_de(d) * 200 + d.tn

\* thousandths
tasa_base(d) == np_clip(20000 - experiencia_de(d) * 200 + d.tn, 2000, 40000)

\* tenths
tasa_error(d) ==
  IF d.ag = "AG04" THEN RoundHalfEven(tasa_base(d) * 18, 1000)
                   ELSE RoundHalfEven(tasa_base(d), 100)

\* one row of the DataFrame, built from the i-th draws; idx is its index label
Fila(d, i) ==
  LET f  == MasDias(fecha_inicio, d.dia)
      ds == weekday(f)
      m  == f.month
      ll == llamadas_por_turno(d, ds, m)
  IN  [idx                   |-> i - 1,
       fecha                 |-> pd_to_datetime(strftime(f)),
       mes                   |-> m,
       dia_semana            |-> dias_nombres[ds + 1],
       id_agente             |-> d.ag,
       nombre_agente         |-> agentes[d.ag].nombre,
       experiencia_meses     |-> experiencia_de(d),
       turno                 |-> d.turno,
       categoria_llamada     |-> d.cat,
       llamadas_por_turno    |-> ll,
       duracion_promedio_min |-> duracion_promedio(d),
       score_satisfaccion    |-> score_satisfaccion(d, ll, m),
       score_qa              |-> score_qa(d, ll),
       tasa_error_pct        |-> tasa_error(d),
       resolucion_primera    |-> d.res]

\* the rows of s whose (fecha, agente, turno, categoria) no earlier row has
RECURSIVE sin_duplicados(_)
sin_duplicados(s) ==
  IF s = <<>> THEN <<>>
  ELSE LET u == s[Len(s)]
           antes == SubSeq(s, 1, Len(s) - 1)
           Igual(x) == /\ x.fecha = u.fecha /\ x.id_agente = u.id_agente
                       /\ x.turno = u.turno /\ x.categoria_llamada = u.categoria_llamada
       IN  IF \E i \in 1..Len(antes) : Igual(antes[i])
             THEN sin_duplicados(antes)
             ELSE Append(sin_duplicados(antes), u)

\* a DataFrame that keeps one row per (fecha, agente, turno, categoria)
DataFrame_sin_duplicados(draws) ==
  sin_duplicados([i \in 1..Len(draws) |-> Fila(draws[i], i)])

\* pd.DataFrame({...}): one row per sample
DataFrame(draws) == [i \in 1..Len(draws) |-> Fila(draws[i], i)]

(***************************************************************************)
(* The draws of the generator.  A draw record holds, for one row, the      *)
(* value of each np.random call of load_data:                              *)
(*   dia    randint(0, 365)          ag     choice(agentes)                *)
(*   turno  choice(turnos)           cat    choice(categorias)             *)
(*   base   randint(10, 30)          bdia   randint(4, 9)                  *)
(*   bdic   randint(3, 7)            dur    normal(8, 2)      thousandths  *)
(*   bcan   uniform(5, 10)           ruido  normal(0, 0.8)    thousandths  *)
(*   qn     normal(0, 8)             tn     normal(0, 3)      thousandths  *)
(*   res    choice(["Si", "No"])                                           *)
(***************************************************************************)
DiasAnio == 365

Muestra ==
  [dia |-> 60, ag |-> "AG01", turno |-> "Manana", cat |-> "Venta Nueva",
   base |-> 20, bdia |-> 4, bdic |-> 3, dur |-> 8130, bcan |-> 7500,
   ruido |-> 0, qn |-> 0, tn |-> 0, res |-> "Si"]

OtraMuestra ==
  [Muestra EXCEPT !.dia = 100, !.ag = "AG05", !.turno = "Tarde", !.cat = "Renovacion"]

Pasos(paso) == {j * paso : j \in (0 - MaxPasos)..MaxPasos}

\* every date of the year, the other draws at their sample value
DrawsFechas ==
  {[Muestra EXCEPT !.dia = k, !.res = r] : k \in 0..(DiasAnio - 1), r \in {"Si", "No"}}

\* the satisfaction score: every agent, shift and category, a Friday of
\* March and a Monday of December, the extremes of the call volume, the noise
DrawsSatisfaccion ==
  {[Muestra EXCEPT !.dia = k, !.ag = a, !.turno = t, !.cat = c, !.base = b, !.ruido = x] :
     k \in {60, 336}, a \in ids, t \in turnos, c \in categorias, b \in {10, 29},
     x \in Pasos(1637)}

\* the duration: every category, the extremes of the duration and of the bonus
DrawsDuracion ==
  {[Muestra EXCEPT !.cat = c, !.dur = u, !.bcan = v] :
     c \in categorias, u \in {1000, 8130, 21000}, v \in {5000, 9999}}

\* the QA score: every agent, the extremes of the call volume and of its bonuses
DrawsQa ==
  {[Muestra EXCEPT !.dia = k, !.ag = a, !.base = b, !.bdia = v, !.bdic = w, !.qn = x] :
     k \in {60, 336}, a \in ids, b \in {10, 18, 29}, v \in {4, 8}, w \in {3, 6},
     x \in Pasos(16037)}

\* the error rate: every agent, the noise
DrawsTasa == {[Muestra EXCEPT !.ag = a, !.tn = x] : a \in ids, x \in Pasos(12037)}

DrawsScores == DrawsSatisfaccion \cup DrawsDuracion \cup DrawsQa \cup DrawsTasa

\* the draws of the interaction model: 29 February and 1 March, two agents,
\* two shifts and two categories
DrawsPanel ==
  {[Muestra EXCEPT !.dia = p[1], !.ag = p[2], !.turno = p[3], !.cat = p[4]] :
     p \in {<<59, "AG04", "Noche", "Cancelacion">>, <<60, "AG04", "Manana", "Queja">>,
            <<60, "AG08", "Noche", "Queja">>}}

(***************************************************************************)
(* The random generator and the cache.                                     *)
(***************************************************************************)
Semilla == 42

\* the draws of an unseeded generator: whatever the entropy of the run gives
np_random_sin_semilla(semilla, entropia) == entropia

\* np.random.seed(semilla) followed by the draws of load_data: the stream is
\* fixed by the seed (gen is the stream of seed 42), whatever the entropy
np_random(semilla, entropia) == gen

\* what an unseeded generator could give on a run
Entropias == {gen, [i \in 1..Len(gen) |-> OtraMuestra]}

\* load_data with neither the cache nor the seed: a fresh table on every run
load_data_sin_cache_ni_semilla(c) == {DataFrame(e) : e \in Entropias}

\* @st.cache_data: the body runs on a cache miss only.  The set of the tables
\* a call can return.
load_data(c) ==
  IF c # <<>> THEN {c[1]}
  ELSE {DataFrame(g) : g \in {np_random(Semilla, e) : e \in Entropias}}

(***************************************************************************)
(* Sidebar widgets.                                                        *)
(***************************************************************************)
Timestamp(f) == datetime(f.year, f.month, f.day)

Indices(s) == 1..Len(s)

\* df["fecha"].min() and .max()
fecha_min(d) ==
  LET i == CHOOSE i \in Indices(d) :
             \A j \in Indices(d) : toordinal(d[i].fecha) <= toordinal(d[j].fecha)
  IN  d[i].fecha

fecha_max(d) ==
  LET i == CHOOSE i \in Indices(d) :
             \A j \in Indices(d) : toordinal(d[i].fecha) >= toordinal(d[j].fecha)
  IN  d[i].fecha

\* the calendar days the date picker offers: min_value .. max_value
DiasOfrecidos(d) ==
  {MasDias(fecha_min(d), k) : k \in 0..(toordinal(fecha_max(d)) - toordinal(fecha_min(d)))}

\* st.sidebar.date_input with a range value: a pair (start, end), or the
\* 1-tuple (start,) while the end of the range has not been picked yet
date_input(d) ==
  {p \in DiasOfrecidos(d) \X DiasOfrecidos(d) : toordinal(p[1]) <= toordinal(p[2])}
    \cup {<<s>> : s \in DiasOfrecidos(d)}

Presentes(orden, valores) ==
  LET Esta(x) == x \in valores IN SelectSeq(orden, Esta)

Rango(s) == {s[i] : i \in Indices(s)}

\* ["Todos"] + sorted(df["turno"].unique().tolist())
turnos_disponibles(d) == <<"Todos">> \o Presentes(OrdenTurnos, {d[i].turno : i \in Indices(d)})
cats_disponibles(d) ==
  <<"Todas">> \o Presentes(OrdenCategorias, {d[i].categoria_llamada : i \in Indices(d)})
agentes_disponibles(d) ==
  <<"Todos">> \o Presentes(OrdenNombres, {d[i].nombre_agente : i \in Indices(d)})

(***************************************************************************)
(* Filtering: lines 119-125.                                               *)
(***************************************************************************)
filtro_fecha(d, r) ==
  LET En(x) == /\ toordinal(x.fecha) >= toordinal(Timestamp(r[1]))
               /\ toordinal(x.fecha) <= toordinal(Timestamp(r[2]))
  IN  SelectSeq(d, En)

filtro_turno(d, t) ==
  LET Es(x) == x.turno = t
  IN  IF t # "Todos" THEN SelectSeq(d, Es) ELSE d

\* the category filter tested against the wrong sentinel
filtro_cat_centinela(d, c) ==
  LET Es(x) == x.categoria_llamada = c
  IN  IF c # "Todos" THEN SelectSeq(d, Es) ELSE d

filtro_cat(d, c) ==
  LET Es(x) == x.categoria_llamada = c
  IN  IF c # "Todas" THEN SelectSeq(d, Es) ELSE d

filtro_agente(d, a) ==
  LET Es(x) == x.nombre_agente = a
  IN  IF a # "Todos" THEN SelectSeq(d, Es) ELSE d

filtrar(d, r, t, c, a) ==
  filtro_agente(filtro_cat(filtro_turno(filtro_fecha(d, r), t), c), a)

(***************************************************************************)
(* Aggregations: lines 127-157.                                            *)
(***************************************************************************)
RECURSIVE suma(_, _)
suma(d, col) == IF d = <<>> THEN 0 ELSE d[1][col] + suma(Tail(d), col)

\* Series.mean(): NaN on an empty series, else the exact quotient s / n
mean(d, col) ==
  IF d = <<>> THEN [nan |-> TRUE, s |-> 0, n |-> 1]
              ELSE [nan |-> FALSE, s |-> suma(d, col), n |-> Len(d)]

\* f"{x:.1f}": tenths, or "nan"
fmt1(m) == [nan |-> m.nan, v |-> IF m.nan THEN 0 ELSE RoundHalfEven(m.s, m.n)]

\* the KPIs computed over the whole table instead of the filtered one
metricas_de_df(d, f) ==
  [total |-> Len(f),
   qa    |-> fmt1(mean(d, "score_qa")),
   sat   |-> fmt1(mean(d, "score_satisfaccion")),
   err   |-> fmt1(mean(d, "tasa_error_pct"))]

\* col1.metric .. col4.metric
metricas(d, f) ==
  [total |-> Len(f),
   qa    |-> fmt1(mean(f, "score_qa")),
   sat   |-> fmt1(mean(f, "score_satisfaccion")),
   err   |-> fmt1(mean(f, "tasa_error_pct"))]

grupo(f, col, k) == LET Es(x) == x[col] = k IN SelectSeq(f, Es)

\* a groupby that keeps one group per row of the frame
claves_por_fila(f) == [i \in Indices(f) |-> f[i].nombre_agente]

\* the keys of df_f.groupby("nombre_agente"), in sorted order
claves_agente(f) == Presentes(OrdenNombres, {f[i].nombre_agente : i \in Indices(f)})

\* m1 > m2 for two means that are not NaN
mayor(m1, m2) == m1.s * m2.n > m2.s * m1.n

\* sort_values("score_qa", ascending=False): insertion of x into a sorted seq
RECURSIVE insertar(_, _)
insertar(s, x) ==
  IF s = <<>> THEN <<x>>
  ELSE IF mayor(x.score_qa, s[1].score_qa) THEN <<x>> \o s
  ELSE <<s[1]>> \o insertar(Tail(s), x)

RECURSIVE ordenar(_)
ordenar(s) == IF s = <<>> THEN <<>> ELSE insertar(ordenar(SubSeq(s, 1, Len(s) - 1)), s[Len(s)])

agg_qa_ag(f) ==
  LET ks == claves_agente(f)
  IN  ordenar([i \in Indices(ks) |->
                 [nombre_agente |-> ks[i],
                  score_qa      |-> mean(grupo(f, "nombre_agente", ks[i]), "score_qa")]])

agg_sc_data(f) ==
  LET ks == claves_agente(f)
  IN  [i \in Indices(ks) |->
         LET g == grupo(f, "nombre_agente", ks[i])
         IN  [nombre_agente |-> ks[i],
              score_qa      |-> mean(g, "score_qa"),
              tasa_error    |-> mean(g, "tasa_error_pct"),
              llamadas      |-> suma(g, "llamadas_por_turno")]]

meses_nombre == <<"Ene", "Feb", "Mar", "Abr", "May", "Jun", "Jul", "Ago", "Sep", "Oct", "Nov", "Dic">>

agg_vol_mes(f) ==
  LET Hay(m) == \E i \in Indices(f) : f[i].mes = m
      ks == SelectSeq([m \in 1..12 |-> m], Hay)
  IN  [i \in Indices(ks) |->
         [mes                |-> ks[i],
          llamadas_por_turno |-> suma(grupo(f, "mes", ks[i]), "llamadas_por_turno"),
          mes_nombre         |-> meses_nombre[ks[i]]]]

\* pivot_table(values, index="turno", columns="categoria_llamada", aggfunc="mean").round(1)
agg_heat(f) ==
  LET ts == {f[i].turno : i \in Indices(f)}
      cs == {f[i].categoria_llamada : i \in Indices(f)}
  IN  [p \in ts \X cs |->
         fmt1(mean(grupo(grupo(f, "turno", p[1]), "categoria_llamada", p[2]),
                   "score_satisfaccion"))]

(***************************************************************************)
(* The state machine: one step is one execution of the script.             *)
(***************************************************************************)
SinCorrer ==
  /\ df = <<>> /\ rango_fechas = <<>>
  /\ turno_sel = "Todos" /\ cat_sel = "Todas" /\ agente_sel = "Todos"
  /\ df_f = <<>> /\ kpi = <<>> /\ qa_ag = <<>> /\ sc_data = <<>>
  /\ vol_mes = <<>> /\ heat = <<>>
  /\ cache = <<>> /\ cargas = 0 /\ estado = "inicio"

Init == gen \in [1..NRows -> DrawsPanel] /\ SinCorrer

InitGen == gen \in {<<d>> : d \in DrawsFechas \cup DrawsScores} /\ SinCorrer

\* lines 96-157 with the table d returned by load_data and the widget values
Ejecutar(d, r, t, c, a) ==
  /\ df' = d
  /\ cache' = <<d>>
  /\ cargas' = IF cache = <<>> THEN cargas + 1 ELSE cargas
  /\ rango_fechas' = r /\ turno_sel' = t /\ cat_sel' = c /\ agente_sel' = a
  /\ IF Len(r) < 2
       THEN \* rango_fechas[1] raises IndexError at line 119
            /\ estado' = "IndexError"
            /\ df_f' = <<>> /\ kpi' = <<>> /\ qa_ag' = <<>> /\ sc_data' = <<>>
            /\ vol_mes' = <<>> /\ heat' = <<>>
       ELSE LET f == filtrar(d, r, t, c, a)
            IN  /\ estado' = "ok"
                /\ df_f' = f
                /\ kpi' = <<metricas(d, f)>>
                /\ qa_ag' = agg_qa_ag(f)
                /\ sc_data' = agg_sc_data(f)
                /\ vol_mes' = agg_vol_mes(f)
                /\ heat' = <<agg_heat(f)>>
  /\ UNCHANGED gen

\* first execution: every widget at its default
Abrir ==
  /\ estado = "inicio"
  /\ \E d \in load_data(cache) :
       Ejecutar(d, <<fecha_min(d), fecha_max(d)>>, "Todos", "Todas", "Todos")

CambiarRango ==
  /\ estado # "inicio"
  /\ \E d \in load_data(cache), r \in date_input(df) :
       /\ r # rango_fechas
       /\ Ejecutar(d, r, turno_sel, cat_sel, agente_sel)

CambiarTurno ==
  /\ estado # "inicio"
  /\ \E d \in load_data(cache), t \in Rango(turnos_disponibles(df)) :
       /\ t # turno_sel
       /\ Ejecutar(d, rango_fechas, t, cat_sel, agente_sel)

CambiarCat ==
  /\ estado # "inicio"
  /\ \E d \in load_data(cache), c \in Rango(cats_disponibles(df)) :
       /\ c # cat_sel
       /\ Ejecutar(d, rango_fechas, turno_sel, c, agente_sel)

CambiarAgente ==
  /\ estado # "inicio"
  /\ \E d \in load_data(cache), a \in Rango(agentes_disponibles(df)) :
       /\ a # agente_sel
       /\ Ejecutar(d, rango_fechas, turno_sel, cat_sel, a)

\* the page is recomputed with the widgets as they are
Rerun ==
  /\ estado # "inicio"
  /\ \E d \in load_data(cache) :
       Ejecutar(d, rango_fechas, turno_sel, cat_sel, agente_sel)

\* the cache of load_data is dropped (cache cleared, server restarted)
LimpiarCache ==
  /\ cache # <<>>
  /\ cargas < MaxCargas
  /\ cache' = <<>>
  /\ UNCHANGED <<gen, cargas, df, rango_fechas, turno_sel, cat_sel, agente_sel,
                 df_f, kpi, qa_ag, sc_data, vol_mes, heat, estado>>

Next ==
  \/ Abrir
  \/ CambiarRango
  \/ CambiarTurno
  \/ CambiarCat
  \/ CambiarAgente
  \/ Rerun
  \/ LimpiarCache

Spec == Init /\ [][Next]_vars

\* load_data alone: the draws of one row range over DrawsFechas and DrawsScores
NextGen == Abrir

SpecGen == InitGen /\ [][NextGen]_vars

(***************************************************************************)
(* Properties.                                                             *)
(***************************************************************************)
\* a <= b on calendar dates, field by field
FechaLeq(a, b) ==
  \/ a.year < b.year
  \/ a.year = b.year /\ a.month < b.month
  \/ a.year = b.year /\ a.month = b.month /\ a.day <= b.day

\* the row satisfies every active predicate of the current widget values
Cumple(x) ==
  /\ FechaLeq(rango_fechas[1], x.fecha) /\ FechaLeq(x.fecha, rango_fechas[2])
  /\ turno_sel = "Todos" \/ x.turno = turno_sel
  /\ cat_sel = "Todas" \/ x.categoria_llamada = cat_sel
  /\ agente_sel = "Todos" \/ x.nombre_agente = agente_sel

\* the positions of the rows of d that satisfy every active predicate
Cumplen(d) == {j \in Indices(d) : Cumple(d[j])}

RECURSIVE SumaDe(_, _, _)
SumaDe(d, S, col) ==
  IF S = {} THEN 0
  ELSE LET j == CHOOSE j \in S : TRUE IN d[j][col] + SumaDe(d, S \ {j}, col)

\* the mean of a column over the positions S, to one decimal; NaN when S is empty
MediaDe(d, S, col) ==
  IF S = {} THEN [nan |-> TRUE, v |-> 0]
  ELSE [nan |-> FALSE, v |-> RoundHalfEven(SumaDe(d, S, col), Cardinality(S))]

\* C1: whenever the script has computed df_f, every row of df_f is a row of
\* df, and df_f is empty iff no row of df satisfies all active predicates.
C1_FiltroEstrecha ==
  estado = "ok" =>
    /\ \A i \in Indices(df_f) : \E j \in Indices(df) : df[j] = df_f[i]
    /\ (df_f = <<>>) <=> (Cumplen(df) = {})

\* two selectors are active and no row satisfies both
C1_Witness ==
  /\ estado = "ok" /\ df_f = <<>> /\ Len(df) = NRows
  /\ turno_sel # "Todos" /\ cat_sel # "Todas"

\* C2: the three displayed means are the means of their columns over exactly
\* the rows of df that satisfy the active predicates (to the one decimal that
\* is displayed), NaN when there is none, and Total Registros is their count.
C2_MetricasExactas ==
  estado = "ok" =>
    kpi = <<[total |-> Cardinality(Cumplen(df)),
             qa    |-> MediaDe(df, Cumplen(df), "score_qa"),
             sat   |-> MediaDe(df, Cumplen(df), "score_satisfaccion"),
             err   |-> MediaDe(df, Cumplen(df), "tasa_error_pct")]>>

\* a proper, non-empty part of the table is displayed and its mean QA score
\* is not the one of the whole table
C2_Witness ==
  /\ estado = "ok" /\ df_f # <<>> /\ Len(df_f) < Len(df)
  /\ kpi[1].qa # fmt1(mean(df, "score_qa"))

\* the displayed means are NaN on an empty filtered set
C2_WitnessNaN == estado = "ok" /\ df_f = <<>> /\ kpi[1].qa.nan /\ kpi[1].total = 0

\* C3: the filtered set and the displayed aggregates are a function of the
\* widget values alone: whatever the interactions before, and however often
\* the page was recomputed or the table reloaded, they are the narrowing of
\* the table of seed 42 by the current widget values.
C3_FuncionDeFiltros ==
  estado = "ok" =>
    LET t == DataFrame(gen)
        Es(x) == Cumple(x)
    IN  /\ df_f = SelectSeq(t, Es)
        /\ kpi = <<metricas(t, SelectSeq(t, Es))>>

\* the table was generated a second time and the page recomputed with a filter
C3_Witness ==
  /\ estado = "ok" /\ cargas = MaxCargas /\ cache # <<>>
  /\ agente_sel # "Todos" /\ df_f # <<>>

\* C4: qa_ag and sc_data hold exactly one row for each agent that has a row
\* in df_f, and no row for any other agent.
Veces(s, nombre) == Cardinality({i \in Indices(s) : s[i].nombre_agente = nombre})

C4_UnaFilaPorAgente ==
  estado = "ok" =>
    /\ \A a \in ids :
         LET esta == \E i \in Indices(df_f) : df_f[i].id_agente = a
             una == IF esta THEN 1 ELSE 0
         IN  /\ Veces(qa_ag, agentes[a].nombre) = una
             /\ Veces(sc_data, agentes[a].nombre) = una
    /\ Len(qa_ag) = Cardinality({df_f[i].id_agente : i \in Indices(df_f)})
    /\ Len(sc_data) = Len(qa_ag)

\* an agent with several rows in df_f is aggregated into one row
C4_Witness ==
  /\ estado = "ok" /\ qa_ag # <<>> /\ Len(df_f) > Len(qa_ag)
  /\ Len(sc_data) = Len(qa_ag)

\* C5: the stored month and weekday name of every row are those of its date
\* as parsed back from the "YYYY-MM-DD" string.
C5_IdaYVuelta ==
  \A i \in Indices(df) :
    /\ df[i].mes = df[i].fecha.month
    /\ df[i].dia_semana = dias_nombres[weekday(df[i].fecha) + 1]
    /\ df[i].fecha = MasDias(fecha_inicio, gen[i].dia)

\* the last date that can be drawn: Monday 30 December 2024
C5_Witness ==
  /\ estado = "ok" /\ gen[1].dia = DiasAnio - 1
  /\ df[1].fecha = datetime(2024, 12, 30) /\ df[1].dia_semana = "Lun" /\ df[1].mes = 12

\* C6 as claimed: no two rows share fecha, id_agente, turno and categoria_llamada.
C6_ClaveUnica ==
  \A i, j \in Indices(df) :
    (/\ df[i].fecha = df[j].fecha /\ df[i].id_agente = df[j].id_agente
     /\ df[i].turno = df[j].turno
     /\ df[i].categoria_llamada = df[j].categoria_llamada) => i = j

\* C6 as amended: the table holds one row per drawn sample: as many rows as
\* samples, row i carrying the index label i - 1 and the agent, shift,
\* category and date of the i-th sample.
C6_UnaFilaPorMuestra ==
  df # <<>> =>
    /\ Len(df) = Len(gen)
    /\ \A i \in Indices(df) :
         /\ df[i].idx = i - 1
         /\ df[i].id_agente = gen[i].ag /\ df[i].turno = gen[i].turno
         /\ df[i].categoria_llamada = gen[i].cat
         /\ df[i].fecha = MasDias(fecha_inicio, gen[i].dia)

\* two rows of the table share date, agent, shift and category
C6_Witness ==
  /\ estado = "ok"
  /\ \E i, j \in Indices(df) :
       /\ i # j /\ df[i].fecha = df[j].fecha /\ df[i].id_agente = df[j].id_agente
       /\ df[i].turno = df[j].turno /\ df[i].categoria_llamada = df[j].categoria_llamada

\* C7: score_satisfaccion lies in 1..10 and score_qa in 0..100 (tenths here).
C7_ScoresEnRango ==
  \A i \in Indices(df) :
    /\ 10 <= df[i].score_satisfaccion /\ df[i].score_satisfaccion <= 100
    /\ 0 <= df[i].score_qa /\ df[i].score_qa <= 1000

\* the penalties and the noise take the satisfaction under 1 before the clip
C7_Witness ==
  /\ estado = "ok" /\ df[1].score_satisfaccion = 10
  /\ sat_cruda(gen[1], df[1].llamadas_por_turno, df[1].mes) < 1000
  /\ gen[1].turno = "Noche" /\ gen[1].cat = "Cancelacion"

\* C8: once the table is built no execution of the script and no clearing
\* of the cache changes it.
C8_TablaInmutable == [][df # <<>> => df' = df]_vars

\* the table was generated again after the cache was dropped, and a narrowed
\* view with its aggregations was computed
C8_Witness ==
  /\ estado = "ok" /\ cargas = MaxCargas /\ df = DataFrame(gen)
  /\ df_f # <<>> /\ Len(df_f) < Len(df) /\ vol_mes # <<>> /\ sc_data # <<>>

\* C9 as claimed: every execution of the script completes the date filter
\* and df_f lies within the chosen dates, both included.
C9_RangoSiempreFiltra ==
  estado # "inicio" =>
    /\ estado = "ok"
    /\ \A i \in Indices(df_f) :
         /\ FechaLeq(rango_fechas[1], df_f[i].fecha)
         /\ FechaLeq(df_f[i].fecha, rango_fechas[Len(rango_fechas)])

====
